---- MODULE Spec2Model ----
(***************************************************************************)
(* Model of the todo data-access layer (src/models.py, class TodoDatabase) *)
(* and of the routes that call it (src/routes/todos.py,                    *)
(* src/routes/admin.py).                                                   *)
(*                                                                         *)
(* Python values are represented as follows.                               *)
(*   str            a sequence of one-character strings                    *)
(*   Optional[x]    None is the empty tuple, a present value v is <<v>>    *)
(*   bool column    SQLite stores 0 / 1, and that is what a read returns   *)
(*   timestamps     readings of a clock that never runs backwards; the     *)
(*                  ISO-8601 strings of one clock compare as its readings  *)
(***************************************************************************)
EXTENDS Integers, Sequences, FiniteSets, TLC

\* Calls (or requests) made in one behaviour.  It also bounds the clock and
\* the ids: each call moves the clock on by at most one reading and inserts
\* at most one row.
MaxOps == 3

None == <<>>

Some(v) == <<v>>

SP == " "

UserIds == {1, 2}

LOW == <<"l","o","w">>

MEDIUM == <<"m","e","d","i","u","m">>

HIGH == <<"h","i","g","h">>
\* A priority that is none of the three the forms offer
URGENT == <<"u","r","g","e","n","t">>

\* A due date string, "d1".
DUE1 == <<"d", "1">>

VARIABLES
    todos,      \* the todo table: a function from the stored ids to their rows
    users,      \* the user table of the auth database: id -> [role, active]
    clock,      \* the wall clock read by datetime.now()
    nops,       \* how many calls have been made
    last,       \* the call made last, with its arguments and what it returned
    procs       \* the calls that run step by step on the worker threads, in
                \* the order they were started, each with its position and locals

vars == <<todos, users, clock, nops, last, procs>>

----------------------------------------------------------------------------
(* str.strip() *)

RECURSIVE lstrip(_)
lstrip(s) == IF s # <<>> /\ Head(s) = SP THEN lstrip(Tail(s)) ELSE s

RECURSIVE rstrip(_)
rstrip(s) ==
    IF s # <<>> /\ s[Len(s)] = SP THEN rstrip(SubSeq(s, 1, Len(s) - 1)) ELSE s

strip(s) == rstrip(lstrip(s))

\* int(bool), as SQLite stores a bool
ToInt(b) == IF b THEN 1 ELSE 0

Max(S) == CHOOSE x \in S : \A y \in S : y <= x

\* The rowid SQLite gives the next inserted row of a table whose key is
\* INTEGER PRIMARY KEY: one more than the largest rowid in the table.
NextId(db) == IF DOMAIN db = {} THEN 1 ELSE Max(DOMAIN db) + 1

\* db with the row of key id removed
Without(db, id) == [i \in DOMAIN db \ {id} |-> db[i]]

\* db with row r added under its key
With(db, r) == [i \in DOMAIN db \cup {r.id} |-> IF i = r.id THEN r ELSE db[i]]

----------------------------------------------------------------------------
(* class TodoDatabase.  Every operation is an operator from the table (and *)
(* the clock reading, for the ones that call datetime.now()) to the value  *)
(* returned and the table left behind: [ret |-> ..., db |-> ...].          *)

\* self.todos.insert(...): the row gets the next rowid, a bool is stored as 0/1
insert(db, user_id, title, description, priority, due_date, completed, created_at, updated_at) ==
    [ id          |-> NextId(db),
      user_id     |-> user_id,
      title       |-> title,
      description |-> description,
      completed   |-> ToInt(completed),
      priority    |-> priority,
      due_date    |-> due_date,
      created_at  |-> created_at,
      updated_at  |-> updated_at ]

\* create_todo storing the title as passed, without title.strip()
create_todo_untrimmed(db, now, user_id, title, description, priority, due_date) ==
    IF title = None
    THEN [ret |-> None, db |-> db]
    ELSE LET d    == IF description = None THEN <<>> ELSE description[1]
             p    == IF priority = None THEN MEDIUM ELSE priority[1]
             todo == insert(db, user_id, title[1],
                            IF d # <<>> THEN strip(d) ELSE <<>>,
                            p, due_date, FALSE, now, now)
         IN  [ret |-> Some(todo), db |-> With(db, todo)]

\* title is None or <<str>>; description, priority and due_date are None when
\* the caller omits them, and the defaults of the signature apply.
create_todo(db, now, user_id, title, description, priority, due_date) ==
    IF title = None
    THEN \* None.strip() raises AttributeError, caught by the except clause
         [ret |-> None, db |-> db]
    ELSE LET d    == IF description = None THEN <<>> ELSE description[1]
             p    == IF priority = None THEN MEDIUM ELSE priority[1]
             todo == insert(db, user_id, strip(title[1]),
                            IF d # <<>> THEN strip(d) ELSE <<>>,
                            p, due_date, FALSE, now, now)
         IN  [ret |-> Some(todo), db |-> With(db, todo)]

\* The rows of db with keys in S, in rowid order (a SELECT without ORDER BY)
RECURSIVE Rows(_, _)
Rows(db, S) ==
    IF S = {} THEN <<>>
    ELSE LET m == CHOOSE x \in S : \A y \in S : x <= y
         IN  <<db[m]>> \o Rows(db, S \ {m})

\* get_todos_by_user selecting on completed alone when the filter is given,
\* without the check of the owner that follows
get_todos_by_user_all_owners(db, user_id, completed) ==
    LET selected == IF completed # None
                    THEN { i \in DOMAIN db : db[i].completed = ToInt(completed[1]) }
                    ELSE { i \in DOMAIN db : db[i].user_id = user_id }
    IN  Rows(db, selected)

\* get_todos_by_user testing "if completed:" in place of "is not None", so
\* that completed=False filters nothing
get_todos_by_user_falsy(db, user_id, completed) ==
    LET selected == IF completed # None /\ completed[1]
                    THEN { i \in DOMAIN db : db[i].user_id = user_id
                                             /\ db[i].completed = ToInt(completed[1]) }
                    ELSE { i \in DOMAIN db : db[i].user_id = user_id }
        filtered == { i \in selected : db[i].user_id = user_id }
    IN  Rows(db, filtered)

\* completed is None (no filter) or <<bool>>
get_todos_by_user(db, user_id, completed) ==
    LET selected == IF completed # None
                    THEN { i \in DOMAIN db : db[i].user_id = user_id
                                             /\ db[i].completed = ToInt(completed[1]) }
                    ELSE { i \in DOMAIN db : db[i].user_id = user_id }
        filtered == { i \in selected : db[i].user_id = user_id }
    IN  Rows(db, filtered)

\* get_todo_by_id without the ownership check
get_todo_by_id_unchecked(db, todo_id, user_id) ==
    IF todo_id \notin DOMAIN db THEN None ELSE Some(db[todo_id])

get_todo_by_id(db, todo_id, user_id) ==
    IF todo_id \notin DOMAIN db
    THEN None       \* todos.get raises NotFoundError, caught: return None
    ELSE IF db[todo_id].user_id # user_id
         THEN None
         ELSE Some(db[todo_id])

\* update_todo writing a default over each field that was not supplied
update_todo_clobbering(db, now, todo_id, user_id, patch) ==
    IF todo_id \notin DOMAIN db
    THEN [ret |-> FALSE, db |-> db]
    ELSE LET current_todo == db[todo_id]
             updated_todo ==
                [ id          |-> todo_id,
                  user_id     |-> current_todo.user_id,
                  title       |-> IF patch.title # None THEN patch.title[1]
                                  ELSE current_todo.title,
                  description |-> IF patch.description # None THEN patch.description[1]
                                  ELSE <<>>,
                  completed   |-> IF patch.completed # None THEN ToInt(patch.completed[1])
                                  ELSE 0,
                  priority    |-> IF patch.priority # None THEN patch.priority[1]
                                  ELSE MEDIUM,
                  due_date    |-> patch.due_date,
                  created_at  |-> current_todo.created_at,
                  updated_at  |-> now ]
         IN  [ret |-> TRUE, db |-> [db EXCEPT ![todo_id] = updated_todo]]

\* update_todo stamping created_at as well as updated_at
update_todo_restamping(db, now, todo_id, user_id, patch) ==
    IF todo_id \notin DOMAIN db
    THEN [ret |-> FALSE, db |-> db]
    ELSE LET current_todo == db[todo_id]
             updated_todo ==
                [ id          |-> todo_id,
                  user_id     |-> current_todo.user_id,
                  title       |-> IF patch.title # None THEN patch.title[1]
                                  ELSE current_todo.title,
                  description |-> IF patch.description # None THEN patch.description[1]
                                  ELSE current_todo.description,
                  completed   |-> IF patch.completed # None THEN ToInt(patch.completed[1])
                                  ELSE current_todo.completed,
                  priority    |-> IF patch.priority # None THEN patch.priority[1]
                                  ELSE current_todo.priority,
                  due_date    |-> IF patch.due_date # None THEN patch.due_date
                                  ELSE current_todo.due_date,
                  created_at  |-> now,
                  updated_at  |-> now ]
         IN  [ret |-> TRUE, db |-> [db EXCEPT ![todo_id] = updated_todo]]

\* A patch names the keyword arguments of update_todo: None for an argument
\* left out (or passed as None), <<v>> for a value.
update_todo(db, now, todo_id, user_id, patch) ==
    IF todo_id \notin DOMAIN db
    THEN [ret |-> FALSE, db |-> db]
    ELSE LET current_todo == db[todo_id]
             updated_todo ==
                [ id          |-> todo_id,
                  user_id     |-> current_todo.user_id,
                  title       |-> IF patch.title # None THEN patch.title[1]
                                  ELSE current_todo.title,
                  description |-> IF patch.description # None THEN patch.description[1]
                                  ELSE current_todo.description,
                  completed   |-> IF patch.completed # None THEN ToInt(patch.completed[1])
                                  ELSE current_todo.completed,
                  priority    |-> IF patch.priority # None THEN patch.priority[1]
                                  ELSE current_todo.priority,
                  due_date    |-> IF patch.due_date # None THEN patch.due_date
                                  ELSE current_todo.due_date,
                  created_at  |-> current_todo.created_at,
                  updated_at  |-> now ]
         IN  [ret |-> TRUE, db |-> [db EXCEPT ![todo_id] = updated_todo]]

\* update_todo_secure without the ownership check
update_todo_secure_unverified(db, now, todo_id, user_id, patch) ==
    update_todo(db, now, todo_id, user_id, patch)

update_todo_secure(db, now, todo_id, user_id, patch) ==
    IF get_todo_by_id(db, todo_id, user_id) = None
    THEN [ret |-> FALSE, db |-> db]
    ELSE update_todo(db, now, todo_id, user_id, patch)

NoPatch ==
    [title |-> None, description |-> None, completed |-> None,
     priority |-> None, due_date |-> None]

\* toggle_todo_completion marking the todo completed whatever it was
toggle_todo_completion_setting(db, now, todo_id, user_id) ==
    LET todo == get_todo_by_id(db, todo_id, user_id)
    IN  IF todo = None
        THEN [ret |-> FALSE, db |-> db]
        ELSE update_todo_secure(db, now, todo_id, user_id,
                                [NoPatch EXCEPT !.completed = Some(TRUE)])

toggle_todo_completion(db, now, todo_id, user_id) ==
    LET todo == get_todo_by_id(db, todo_id, user_id)
    IN  IF todo = None
        THEN [ret |-> FALSE, db |-> db]
        ELSE LET new_status == (todo[1].completed = 0)   \* not todo.completed
             IN  update_todo_secure(db, now, todo_id, user_id,
                                    [NoPatch EXCEPT !.completed = Some(new_status)])

\* delete_todo deleting by id, without the ownership checks
delete_todo_unchecked(db, todo_id, user_id) ==
    IF todo_id \notin DOMAIN db
    THEN [ret |-> FALSE, db |-> db]
    ELSE [ret |-> TRUE, db |-> Without(db, todo_id)]

\* delete_todo deleting, with the todo asked for, every other todo of its owner
delete_todo_all_of_owner(db, todo_id, user_id) ==
    IF get_todo_by_id(db, todo_id, user_id) = None
    THEN [ret |-> FALSE, db |-> db]
    ELSE [ret |-> TRUE,
          db  |-> [i \in { j \in DOMAIN db : db[j].user_id # user_id } |-> db[i]]]

delete_todo(db, todo_id, user_id) ==
    IF todo_id \notin DOMAIN db
    THEN [ret |-> FALSE, db |-> db]
    ELSE IF db[todo_id].user_id # user_id
    THEN [ret |-> FALSE, db |-> db]
    ELSE IF get_todo_by_id(db, todo_id, user_id) = None
    THEN [ret |-> FALSE, db |-> db]
    ELSE [ret |-> TRUE, db |-> Without(db, todo_id)]

\* get_user_stats counting over the whole table
get_user_stats_everyone(db, user_id) ==
    LET list      == Rows(db, DOMAIN db)
        total     == Len(list)
        completed == Cardinality({ i \in 1..total : list[i].completed # 0 })
    IN  [ total           |-> total,
          completed       |-> completed,
          pending         |-> total - completed,
          completion_rate |-> IF total > 0 THEN <<completed, total>> ELSE <<0, 1>> ]

\* completion_rate is the fraction completed / total, kept as the pair
\* <<completed, total>>; the integer 0 of the else branch is <<0, 1>>.
get_user_stats(db, user_id) ==
    LET list      == get_todos_by_user(db, user_id, None)
        total     == Len(list)
        completed == Cardinality({ i \in 1..total : list[i].completed # 0 })
    IN  [ total           |-> total,
          completed       |-> completed,
          pending         |-> total - completed,
          completion_rate |-> IF total > 0 THEN <<completed, total>> ELSE <<0, 1>> ]

\* admin_delete_todo without the lookup of the todo: deleting a missing row
\* is no error, and True is returned
admin_delete_todo_lenient(db, todo_id) ==
    [ret |-> TRUE, db |-> Without(db, todo_id)]

admin_delete_todo(db, todo_id) ==
    IF todo_id \notin DOMAIN db
    THEN [ret |-> FALSE, db |-> db]
    ELSE [ret |-> TRUE, db |-> Without(db, todo_id)]

delete_user_todos(db, user_id) ==
    LET user_todos == { i \in DOMAIN db : db[i].user_id = user_id }
    IN  [ret |-> TRUE, db |-> [i \in DOMAIN db \ user_todos |-> db[i]]]

----------------------------------------------------------------------------
(* Admin and reporting operations of TodoDatabase.  They read the user     *)
(* table us of the same database (JOIN user u ON t.user_id = u.id); a user *)
(* stands for its own username and email.                                  *)

\* The keys in S ordered by created_at descending; rows created at the same
\* reading come out in rowid order.
RECURSIVE NewestFirst(_, _)
NewestFirst(db, S) ==
    IF S = {} THEN <<>>
    ELSE LET m == CHOOSE x \in S : \A y \in S :
                      \/ db[x].created_at > db[y].created_at
                      \/ db[x].created_at = db[y].created_at /\ x <= y
         IN  <<m>> \o NewestFirst(db, S \ {m})

\* LIMIT n
Limit(seq, n) == IF Len(seq) <= n THEN seq ELSE SubSeq(seq, 1, n)

\* FROM todo t JOIN user u ON t.user_id = u.id
Joined(db, us) == { i \in DOMAIN db : db[i].user_id \in DOMAIN us }

\* get_all_todos_admin taking the first limit rows of the table and ordering
\* those, in place of ordering the rows and taking the first limit of them
get_all_todos_admin_limit_first(db, us, completed, limit) ==
    LET sel   == IF completed # None
                 THEN { i \in Joined(db, us) : db[i].completed = ToInt(completed[1]) }
                 ELSE Joined(db, us)
        first == { i \in sel : Cardinality({ j \in sel : j < i }) < limit }
        ids   == NewestFirst(db, first)
    IN  [ k \in 1..Len(ids) |->
            [ id |-> ids[k], title |-> db[ids[k]].title,
              description |-> db[ids[k]].description,
              completed |-> db[ids[k]].completed, priority |-> db[ids[k]].priority,
              created_at |-> db[ids[k]].created_at, username |-> db[ids[k]].user_id,
              email |-> db[ids[k]].user_id, user_id |-> db[ids[k]].user_id ] ]

get_all_todos_admin(db, us, completed, limit) ==
    LET sel == IF completed # None
               THEN { i \in Joined(db, us) : db[i].completed = ToInt(completed[1]) }
               ELSE Joined(db, us)
        ids == Limit(NewestFirst(db, sel), limit)
    IN  [ k \in 1..Len(ids) |->
            [ id |-> ids[k], title |-> db[ids[k]].title,
              description |-> db[ids[k]].description,
              completed |-> db[ids[k]].completed, priority |-> db[ids[k]].priority,
              created_at |-> db[ids[k]].created_at, username |-> db[ids[k]].user_id,
              email |-> db[ids[k]].user_id, user_id |-> db[ids[k]].user_id ] ]

_get_recent_activity(db, us, limit) ==
    LET ids == Limit(NewestFirst(db, Joined(db, us)), limit)
    IN  [ k \in 1..Len(ids) |->
            [ action |-> "Todo created", username |-> db[ids[k]].user_id,
              timestamp |-> db[ids[k]].created_at ] ]

get_system_stats(db, us) ==
    LET total_todos     == Cardinality(DOMAIN db)
        completed_todos == Cardinality({ i \in DOMAIN db : db[i].completed = 1 })
        count(p)        == Cardinality({ i \in DOMAIN db : db[i].priority = p })
    IN  [ todo_stats      |-> [ total |-> total_todos, completed |-> completed_todos,
                                pending |-> total_todos - completed_todos ],
          priority_stats  |-> [ p \in { q \in {LOW, MEDIUM, HIGH} : count(q) > 0 } |-> count(p) ],
          user_count      |-> Cardinality(DOMAIN us),
          active_users    |-> Cardinality({ u \in DOMAIN us : us[u].active }),
          recent_activity |-> _get_recent_activity(db, us, 10) ]

debug_all_todos(db, us) ==
    LET ids == NewestFirst(db, Joined(db, us))
    IN  [ k \in 1..Len(ids) |->
            [ todo_id |-> ids[k], title |-> db[ids[k]].title,
              owner_id |-> db[ids[k]].user_id, owner_name |-> db[ids[k]].user_id,
              owner_role |-> us[db[ids[k]].user_id].role,
              created_at |-> db[ids[k]].created_at ] ]

security_audit_todos(db, us, requesting_user_id) ==
    LET user_todos    == get_todos_by_user(db, requesting_user_id, None)
        user_todo_ids == { user_todos[k].id : k \in 1..Len(user_todos) }
        all_todos     == debug_all_todos(db, us)
        violations    == { k \in 1..Len(all_todos) :
                              /\ all_todos[k].todo_id \in user_todo_ids
                              /\ all_todos[k].owner_id # requesting_user_id }
    IN  [ requesting_user   |-> requesting_user_id,
          user_todos_count  |-> Len(user_todos),
          total_todos_count |-> Len(all_todos),
          violations        |-> { all_todos[k] : k \in violations },
          security_status   |-> IF violations # {} THEN "VIOLATED" ELSE "SECURE" ]

----------------------------------------------------------------------------
(* The routes.  A handler is an operator from the two tables, the user of   *)
(* the request (req.scope['user'], a record [id, role]) and the request's   *)
(* inputs to: the response, the tables left behind, and the TodoDatabase    *)
(* and user-repository operations it ran.                                   *)
(*   resp.rows    the todos whose data the response carries, as [id, user_id] *)
(*   resp.people  the users whose account data the response carries         *)

RedirectResponse(to) ==
    [status |-> 303, to |-> to, rows |-> {}, people |-> {}, body |-> None]

Page(name, rows, people, body) ==
    [status |-> 200, to |-> name, rows |-> rows, people |-> people, body |-> Some(body)]

Handled(resp, db, us, calls) == [resp |-> resp, db |-> db, us |-> us, calls |-> calls]

\* The [id, user_id] of the rows of a sequence of todos
Shown(list) == { [id |-> list[k].id, user_id |-> list[k].user_id] : k \in 1..Len(list) }

\* auth.require_admin(): the handler runs only for a user whose role is admin
require_admin(user) == user.role = "admin"

Forbidden(db, us) ==
    Handled([status |-> 403, to |-> "forbidden", rows |-> {}, people |-> {}, body |-> None],
            db, us, {})

\* auth.user_repo.get_by_id
user_repo_get_by_id(us, user_id) == IF user_id \in DOMAIN us THEN Some(us[user_id]) ELSE None

\* auth.user_repo.update(user_id, role=...) / (user_id, active=...)
user_repo_update(us, user_id, field, value) ==
    IF user_id \in DOMAIN us
    THEN [ret |-> TRUE, us |-> [us EXCEPT ![user_id][field] = value]]
    ELSE [ret |-> FALSE, us |-> us]

\* auth.user_repo.db.t.user.delete(user_id)
user_delete(us, user_id) == [i \in DOMAIN us \ {user_id} |-> us[i]]

\* GET /dashboard?filter=...
dashboard(db, us, user, filter_type) ==
    LET list  == IF filter_type = "completed" THEN get_todos_by_user(db, user.id, Some(TRUE))
                 ELSE IF filter_type = "pending" THEN get_todos_by_user(db, user.id, Some(FALSE))
                 ELSE get_todos_by_user(db, user.id, None)
        stats == get_user_stats(db, user.id)
    IN  Handled(Page("dashboard", Shown(list), {user.id}, [todos |-> list, stats |-> stats]),
                db, us, {"get_todos_by_user", "get_user_stats"})

\* form.get('due_date', '') or None
OrNone(str) == IF str = <<>> THEN None ELSE Some(str)

\* POST /todos/new
create_todo_route(db, us, now, user, form) ==
    LET title       == strip(form.title)
        description == strip(form.description)
        priority    == form.priority
        due_date    == OrNone(form.due_date)
    IN  IF title = <<>>
        THEN Handled(Page("todo_form", {}, {user.id}, [error |-> "Title is required"]),
                     db, us, {})
        ELSE LET r == create_todo(db, now, user.id, Some(title), Some(description),
                                  Some(priority), due_date)
             IN  IF r.ret # None
                 THEN Handled(RedirectResponse("/dashboard?success=created"),
                              r.db, us, {"create_todo"})
                 ELSE Handled(Page("todo_form", {}, {user.id}, [error |-> "Failed to create todo"]),
                              r.db, us, {"create_todo"})

\* GET /todos/{todo_id}/edit
edit_todo_form(db, us, user, todo_id) ==
    LET todo == get_todo_by_id(db, todo_id, user.id)
    IN  IF todo = None
        THEN Handled(RedirectResponse("/dashboard?error=not_found"), db, us, {"get_todo_by_id"})
        ELSE Handled(Page("todo_form", Shown(todo), {user.id}, [todo |-> todo[1]]),
                     db, us, {"get_todo_by_id"})

\* POST /todos/{todo_id}/edit
update_todo_route(db, us, now, user, todo_id, form) ==
    LET todo == get_todo_by_id(db, todo_id, user.id)
    IN  IF todo = None
        THEN Handled(RedirectResponse("/dashboard?error=not_found"), db, us, {"get_todo_by_id"})
        ELSE LET title       == strip(form.title)
                 description == strip(form.description)
                 priority    == form.priority
                 due_date    == OrNone(form.due_date)
             IN  IF title = <<>>
                 THEN Handled(Page("todo_form", Shown(todo), {user.id},
                                   [todo |-> todo[1], error |-> "Title is required"]),
                              db, us, {"get_todo_by_id"})
                 ELSE LET r == update_todo_secure(db, now, todo_id, user.id,
                                   [title |-> Some(title), description |-> Some(description),
                                    completed |-> None, priority |-> Some(priority),
                                    due_date |-> due_date])
                      IN  IF r.ret
                          THEN Handled(RedirectResponse("/dashboard?success=updated"),
                                       r.db, us, {"get_todo_by_id", "update_todo_secure"})
                          ELSE Handled(Page("todo_form", Shown(todo), {user.id},
                                            [todo |-> todo[1], error |-> "Failed to update todo"]),
                                       r.db, us, {"get_todo_by_id", "update_todo_secure"})

\* POST /todos/{todo_id}/toggle
toggle_todo(db, us, now, user, todo_id) ==
    LET r == toggle_todo_completion(db, now, todo_id, user.id)
    IN  IF r.ret
        THEN Handled(RedirectResponse("/dashboard?success=toggled"),
                     r.db, us, {"toggle_todo_completion"})
        ELSE Handled(RedirectResponse("/dashboard?error=toggle_failed"),
                     r.db, us, {"toggle_todo_completion"})

\* POST /todos/{todo_id}/delete
delete_todo_route(db, us, user, todo_id) ==
    LET r == delete_todo(db, todo_id, user.id)
    IN  IF r.ret
        THEN Handled(RedirectResponse("/dashboard?success=deleted"), r.db, us, {"delete_todo"})
        ELSE Handled(RedirectResponse("/dashboard?error=delete_failed"), r.db, us, {"delete_todo"})

\* The [id, user_id] of the rows of debug_all_todos
ShownDebug(list) ==
    { [id |-> list[k].todo_id, user_id |-> list[k].owner_id] : k \in 1..Len(list) }

\* debug_security registered without @auth.require_admin()
debug_security_ungated(db, us, user) ==
    LET audit     == security_audit_todos(db, us, user.id)
        all_todos == debug_all_todos(db, us)
    IN  Handled(Page("debug_security", ShownDebug(all_todos),
                     {user.id} \cup { all_todos[k].owner_id : k \in 1..Len(all_todos) },
                     [audit |-> audit, all_todos |-> all_todos]),
                db, us, {"security_audit_todos", "debug_all_todos"})

\* GET /debug/security
debug_security(db, us, user) ==
    IF ~require_admin(user) THEN Forbidden(db, us)
    ELSE LET audit     == security_audit_todos(db, us, user.id)
             all_todos == debug_all_todos(db, us)
         IN  Handled(Page("debug_security", ShownDebug(all_todos),
                          {user.id} \cup { all_todos[k].owner_id : k \in 1..Len(all_todos) },
                          [audit |-> audit, all_todos |-> all_todos]),
                     db, us, {"security_audit_todos", "debug_all_todos"})

\* sum(d.values()) of the todo_stats dict
SumValues(todo_stats) == todo_stats.total + todo_stats.completed + todo_stats.pending

\* system_stats has no 'user_stats' key: system_stats.get('user_stats', {}) is
\* the empty dict, and the sum of its values is 0.
render_admin_dashboard(user, system_stats, recent_todos) ==
    [ total_users  |-> 0,
      active_users |-> system_stats.active_users,
      total_todos  |-> SumValues(system_stats.todo_stats),
      completed    |-> system_stats.todo_stats.completed,
      recent_todos |-> recent_todos ]

\* GET /admin
admin_dashboard(db, us, user) ==
    IF ~require_admin(user) THEN Forbidden(db, us)
    ELSE LET system_stats == get_system_stats(db, us)
             recent_todos == get_all_todos_admin(db, us, None, 10)
         IN  Handled(Page("admin_dashboard", Shown(recent_todos),
                          {user.id} \cup { recent_todos[k].user_id : k \in 1..Len(recent_todos) },
                          render_admin_dashboard(user, system_stats, recent_todos)),
                     db, us, {"get_system_stats", "get_all_todos_admin"})

\* GET /admin/users
user_management(db, us, user) ==
    IF ~require_admin(user) THEN Forbidden(db, us)
    ELSE Handled(Page("user_management", {}, DOMAIN us, [users |-> us]),
                 db, us, {"user_repo.list_all"})

\* POST /admin/users/{user_id}/role
change_user_role(db, us, current_user, user_id, new_role) ==
    IF ~require_admin(current_user) THEN Forbidden(db, us)
    ELSE IF new_role \notin {"user", "manager", "admin"}
    THEN Handled(RedirectResponse("/admin/users?error=invalid_role"), db, us, {})
    ELSE IF user_id = current_user.id /\ new_role # "admin"
    THEN Handled(RedirectResponse("/admin/users?error=cannot_demote_self"), db, us, {})
    ELSE LET r == user_repo_update(us, user_id, "role", new_role)
         IN  IF r.ret
             THEN Handled(RedirectResponse("/admin/users?success=role_updated"),
                          db, r.us, {"user_repo.update"})
             ELSE Handled(RedirectResponse("/admin/users?error=role_update_failed"),
                          db, r.us, {"user_repo.update"})

\* POST /admin/users/{user_id}/toggle
toggle_user_status(db, us, current_user, user_id) ==
    IF ~require_admin(current_user) THEN Forbidden(db, us)
    ELSE IF user_id = current_user.id
    THEN Handled(RedirectResponse("/admin/users?error=cannot_deactivate_self"), db, us, {})
    ELSE LET target_user == user_repo_get_by_id(us, user_id)
         IN  IF target_user = None
             THEN Handled(RedirectResponse("/admin/users?error=user_not_found"),
                          db, us, {"user_repo.get_by_id"})
             ELSE LET new_status == ~target_user[1].active
                      r          == user_repo_update(us, user_id, "active", new_status)
                  IN  IF r.ret
                      THEN Handled(RedirectResponse(IF new_status
                                                    THEN "/admin/users?success=user_activated"
                                                    ELSE "/admin/users?success=user_deactivated"),
                                   db, r.us, {"user_repo.get_by_id", "user_repo.update"})
                      ELSE Handled(RedirectResponse("/admin/users?error=status_update_failed"),
                                   db, r.us, {"user_repo.get_by_id", "user_repo.update"})

\* POST /admin/users/{user_id}/delete
delete_user(db, us, current_user, user_id) ==
    IF ~require_admin(current_user) THEN Forbidden(db, us)
    ELSE IF user_id = current_user.id
    THEN Handled(RedirectResponse("/admin/users?error=cannot_delete_self"), db, us, {})
    ELSE IF user_repo_get_by_id(us, user_id) = None
    THEN Handled(RedirectResponse("/admin/users?error=user_not_found"),
                 db, us, {"user_repo.get_by_id"})
    ELSE LET r == delete_user_todos(db, user_id)
         IN  Handled(RedirectResponse("/admin/users?success=user_deleted"),
                     r.db, user_delete(us, user_id),
                     {"user_repo.get_by_id", "delete_user_todos", "user.delete"})

\* GET /admin/todos
all_todos_management(db, us, user) ==
    IF ~require_admin(user) THEN Forbidden(db, us)
    ELSE LET all_todos == get_all_todos_admin(db, us, None, 50)
         IN  Handled(Page("all_todos_management", Shown(all_todos),
                          {user.id} \cup { all_todos[k].user_id : k \in 1..Len(all_todos) },
                          [all_todos |-> all_todos]),
                     db, us, {"get_all_todos_admin"})

\* user_stats is the empty dict here too.  The completion rate shown is the
\* fraction completed / sum(todo_stats.values()), kept as a pair, 0 as <<0, 1>>.
render_system_info(user, system_stats, all_users) ==
    LET todo_stats == system_stats.todo_stats
    IN  [ total_users     |-> 0,
          active_users    |-> system_stats.active_users,
          total_todos     |-> SumValues(todo_stats),
          completed       |-> todo_stats.completed,
          pending         |-> todo_stats.pending,
          completion_rate |-> IF SumValues(todo_stats) > 0
                              THEN <<todo_stats.completed, SumValues(todo_stats)>>
                              ELSE <<0, 1>>,
          users           |-> all_users ]

\* GET /admin/system
system_info(db, us, user) ==
    IF ~require_admin(user) THEN Forbidden(db, us)
    ELSE LET system_stats == get_system_stats(db, us)
         IN  Handled(Page("system_info", {}, DOMAIN us,
                          render_system_info(user, system_stats, us)),
                     db, us, {"get_system_stats", "user_repo.list_all"})

----------------------------------------------------------------------------
(* The calls a client of TodoDatabase makes, one at a time. *)

\* The keyword arguments tried with update_todo_secure: completed alone, and
\* the fields of the edit form without and with a due date, the title of the
\* second one blank
Patches ==
    { [NoPatch EXCEPT !.completed = Some(TRUE)],
      [title |-> Some(<<"a">>), description |-> Some(<<"d">>), completed |-> None,
       priority |-> Some(HIGH), due_date |-> None],
      [title |-> Some(<<SP>>), description |-> Some(<<>>), completed |-> None,
       priority |-> Some(LOW), due_date |-> Some(DUE1)] }

\* The keyword arguments tried with update_todo: none, and completed alone
DirectPatches == { NoPatch, [NoPatch EXCEPT !.completed = Some(TRUE)] }

\* The arguments tried with create_todo: no title (None), a blank title, a
\* title alone, and every argument given, the priority one of the caller's own
CreateArgs ==
    { [title |-> None, description |-> None, priority |-> None, due_date |-> None],
      [title |-> Some(<<SP>>), description |-> None, priority |-> None, due_date |-> None],
      [title |-> Some(<<SP, "b", SP>>), description |-> None, priority |-> None,
       due_date |-> None],
      [title |-> Some(<<"a">>), description |-> Some(<<"d", SP>>), priority |-> Some(URGENT),
       due_date |-> Some(DUE1)] }

NoArgs == [none |-> TRUE]

\* The row of key todo_id, if any, as it is before a call
Before(todo_id) == IF todo_id \in DOMAIN todos THEN Some(todos[todo_id]) ELSE None

\* The ids a caller may pass: every id of the table, and one that is not there
TodoIds == DOMAIN todos \cup {NextId(todos)}

\* datetime.now(): the clock has moved on by at most one reading
Now == {clock, clock + 1}

\* The ids of the rows a step changed or removed
Touched == { i \in DOMAIN todos : i \notin DOMAIN todos' \/ todos'[i] # todos[i] }

\* What is remembered of a call: the operation, its arguments, the value
\* returned, the target row as it was before the call, the role of the user
\* of a request, the operations that ran, the table as it was before the
\* call, the owners of the rows the call changed or removed, whether the
\* table is as it was before the call, and
\* whether the call is a toggle that directly follows a successful toggle
\* with the same arguments.
Called(op, uid, tid, args, ret, before) ==
    /\ nops' = nops + 1
    /\ procs' = procs
    /\ last' = [op |-> op, uid |-> uid, tid |-> tid, args |-> args,
                ret |-> ret, before |-> before, role |-> "none", calls |-> {op},
                pre |-> todos,
                touched |-> { todos[i].user_id : i \in Touched }, same |-> todos' = todos,
                repeat |-> /\ op = "toggle_todo_completion"
                           /\ last.op = "toggle_todo_completion"
                           /\ last.ret = TRUE
                           /\ last.uid = uid
                           /\ last.tid = tid]

CreateTodo ==
    /\ nops < MaxOps
    /\ \E u \in UserIds, a \in CreateArgs, now \in Now :
        LET r == create_todo(todos, now, u, a.title, a.description, a.priority, a.due_date)
        IN  /\ todos' = r.db
            /\ clock' = now
            /\ Called("create_todo", u, 0, a, r.ret, None)
            /\ UNCHANGED users

GetTodosByUser ==
    /\ nops < MaxOps
    /\ \E u \in UserIds, c \in {None, Some(TRUE), Some(FALSE)} :
        /\ UNCHANGED <<todos, users, clock>>
        /\ Called("get_todos_by_user", u, 0, [completed |-> c],
                  get_todos_by_user(todos, u, c), None)

GetTodoById ==
    /\ nops < MaxOps
    /\ \E u \in UserIds, t \in TodoIds :
        /\ UNCHANGED <<todos, users, clock>>
        /\ Called("get_todo_by_id", u, t, NoArgs, get_todo_by_id(todos, t, u), Before(t))

UpdateTodo ==
    /\ nops < MaxOps
    /\ \E u \in UserIds, t \in TodoIds, p \in DirectPatches, now \in Now :
        LET r == update_todo(todos, now, t, u, p)
        IN  /\ todos' = r.db
            /\ clock' = now
            /\ Called("update_todo", u, t, p, r.ret, Before(t))
            /\ UNCHANGED users

UpdateTodoSecure ==
    /\ nops < MaxOps
    /\ \E u \in UserIds, t \in TodoIds, p \in Patches, now \in Now :
        LET r == update_todo_secure(todos, now, t, u, p)
        IN  /\ todos' = r.db
            /\ clock' = now
            /\ Called("update_todo_secure", u, t, p, r.ret, Before(t))
            /\ UNCHANGED users

ToggleTodoCompletion ==
    /\ nops < MaxOps
    /\ \E u \in UserIds, t \in TodoIds, now \in Now :
        LET r == toggle_todo_completion(todos, now, t, u)
        IN  /\ todos' = r.db
            /\ clock' = now
            /\ Called("toggle_todo_completion", u, t, NoArgs, r.ret, Before(t))
            /\ UNCHANGED users

DeleteTodo ==
    /\ nops < MaxOps
    /\ \E u \in UserIds, t \in TodoIds :
        LET r == delete_todo(todos, t, u)
        IN  /\ todos' = r.db
            /\ Called("delete_todo", u, t, NoArgs, r.ret, Before(t))
            /\ UNCHANGED <<users, clock>>

GetUserStats ==
    /\ nops < MaxOps
    /\ \E u \in UserIds :
        /\ UNCHANGED <<todos, users, clock>>
        /\ Called("get_user_stats", u, 0, NoArgs, get_user_stats(todos, u), None)

AdminDeleteTodo ==
    /\ nops < MaxOps
    /\ \E t \in TodoIds :
        LET r == admin_delete_todo(todos, t)
        IN  /\ todos' = r.db
            /\ Called("admin_delete_todo", 0, t, NoArgs, r.ret, Before(t))
            /\ UNCHANGED <<users, clock>>

DeleteUserTodos ==
    /\ nops < MaxOps
    /\ \E u \in UserIds :
        LET r == delete_user_todos(todos, u)
        IN  /\ todos' = r.db
            /\ Called("delete_user_todos", u, 0, NoArgs, r.ret, None)
            /\ UNCHANGED <<users, clock>>

\* The limits tried with get_all_todos_admin
Limits == {1, 2}

GetAllTodosAdmin ==
    /\ nops < MaxOps
    /\ \E c \in {None, Some(FALSE)}, limit \in Limits :
        /\ UNCHANGED <<todos, users, clock>>
        /\ Called("get_all_todos_admin", 0, 0, [completed |-> c, limit |-> limit],
                  get_all_todos_admin(todos, users, c, limit), None)

GetSystemStats ==
    /\ nops < MaxOps
    /\ UNCHANGED <<todos, users, clock>>
    /\ Called("get_system_stats", 0, 0, NoArgs, get_system_stats(todos, users), None)

\* The state after create_app(): the auth database holds the default admin
\* account (id 1) and one registered user (id 2); the todo table is empty.
Init ==
    /\ todos = << >>
    /\ users = [i \in UserIds |-> [role     |-> IF i = 1 THEN "admin" ELSE "user",
                                    active   |-> TRUE,
                                    username |-> IF i = 1 THEN "admin" ELSE "user2"]]
    /\ clock = 0
    /\ nops = 0
    /\ procs = << >>
    /\ last = [op |-> "none", uid |-> 0, tid |-> 0, args |-> NoArgs,
               ret |-> None, before |-> None, role |-> "none", calls |-> {},
               pre |-> << >>,
               touched |-> {}, same |-> TRUE,
               repeat |-> FALSE]

Next ==
    \/ CreateTodo
    \/ GetTodosByUser
    \/ GetTodoById
    \/ UpdateTodo
    \/ UpdateTodoSecure
    \/ ToggleTodoCompletion
    \/ DeleteTodo
    \/ GetUserStats
    \/ AdminDeleteTodo
    \/ DeleteUserTodos
    \/ GetAllTodosAdmin
    \/ GetSystemStats

Spec == Init /\ [][Next]_vars

----------------------------------------------------------------------------
(* The requests the routes serve, one at a time.  The user of a request is *)
(* a stored, active user: the auth beforeware admits no other.             *)

\* The submitted forms tried: a blank title, and two filled forms
Forms ==
    { [title |-> <<SP>>, description |-> <<>>, priority |-> MEDIUM, due_date |-> <<>>],
      [title |-> <<SP, "b", SP>>, description |-> <<"d", SP>>, priority |-> HIGH, due_date |-> DUE1],
      [title |-> <<"a">>, description |-> <<>>, priority |-> LOW, due_date |-> <<>>] }

Filters == {"all", "completed", "pending"}

\* The role names a form may carry
RoleInputs == {"user", "manager", "admin", "root"}

\* The users that may send a request, as req.scope['user']
Requesters == { [id |-> u, role |-> users[u].role] : u \in { v \in DOMAIN users : users[v].active } }

\* The user ids a request may name: every stored one, and one that is not
UserTargets == DOMAIN users \cup {Max(DOMAIN users \cup {0}) + 1}

Requested(op, user, tid, args, h, before) ==
    /\ nops' = nops + 1
    /\ procs' = procs
    /\ todos' = h.db
    /\ users' = h.us
    /\ last' = [op |-> op, uid |-> user.id, tid |-> tid, args |-> args,
                ret |-> h.resp, before |-> before, role |-> user.role,
                calls |-> h.calls, pre |-> todos,
                touched |-> { todos[i].user_id : i \in Touched },
                same |-> todos' = todos, repeat |-> FALSE]

Dashboard ==
    /\ nops < MaxOps
    /\ \E user \in Requesters, f \in Filters :
        /\ Requested("dashboard", user, 0, [filter |-> f],
                     dashboard(todos, users, user, f), None)
        /\ UNCHANGED clock

CreateTodoRoute ==
    /\ nops < MaxOps
    /\ \E user \in Requesters, form \in Forms, now \in Now :
        /\ Requested("create_todo_route", user, 0, form,
                     create_todo_route(todos, users, now, user, form), None)
        /\ clock' = now

EditTodoForm ==
    /\ nops < MaxOps
    /\ \E user \in Requesters, t \in TodoIds :
        /\ Requested("edit_todo_form", user, t, NoArgs,
                     edit_todo_form(todos, users, user, t), Before(t))
        /\ UNCHANGED clock

UpdateTodoRoute ==
    /\ nops < MaxOps
    /\ \E user \in Requesters, t \in TodoIds, form \in Forms, now \in Now :
        /\ Requested("update_todo_route", user, t, form,
                     update_todo_route(todos, users, now, user, t, form), Before(t))
        /\ clock' = now

ToggleTodo ==
    /\ nops < MaxOps
    /\ \E user \in Requesters, t \in TodoIds, now \in Now :
        /\ Requested("toggle_todo", user, t, NoArgs,
                     toggle_todo(todos, users, now, user, t), Before(t))
        /\ clock' = now

DeleteTodoRoute ==
    /\ nops < MaxOps
    /\ \E user \in Requesters, t \in TodoIds :
        /\ Requested("delete_todo_route", user, t, NoArgs,
                     delete_todo_route(todos, users, user, t), Before(t))
        /\ UNCHANGED clock

DebugSecurity ==
    /\ nops < MaxOps
    /\ \E user \in Requesters :
        /\ Requested("debug_security", user, 0, NoArgs,
                     debug_security(todos, users, user), None)
        /\ UNCHANGED clock

AdminDashboard ==
    /\ nops < MaxOps
    /\ \E user \in Requesters :
        /\ Requested("admin_dashboard", user, 0, NoArgs,
                     admin_dashboard(todos, users, user), None)
        /\ UNCHANGED clock

UserManagement ==
    /\ nops < MaxOps
    /\ \E user \in Requesters :
        /\ Requested("user_management", user, 0, NoArgs,
                     user_management(todos, users, user), None)
        /\ UNCHANGED clock

ChangeUserRole ==
    /\ nops < MaxOps
    /\ \E user \in Requesters, target \in UserTargets, role \in RoleInputs :
        /\ Requested("change_user_role", user, target, [role |-> role],
                     change_user_role(todos, users, user, target, role), None)
        /\ UNCHANGED clock

ToggleUserStatus ==
    /\ nops < MaxOps
    /\ \E user \in Requesters, target \in UserTargets :
        /\ Requested("toggle_user_status", user, target, NoArgs,
                     toggle_user_status(todos, users, user, target), None)
        /\ UNCHANGED clock

DeleteUser ==
    /\ nops < MaxOps
    /\ \E user \in Requesters, target \in UserTargets :
        /\ Requested("delete_user", user, target, NoArgs,
                     delete_user(todos, users, user, target), None)
        /\ UNCHANGED clock

AllTodosManagement ==
    /\ nops < MaxOps
    /\ \E user \in Requesters :
        /\ Requested("all_todos_management", user, 0, NoArgs,
                     all_todos_management(todos, users, user), None)
        /\ UNCHANGED clock

SystemInfo ==
    /\ nops < MaxOps
    /\ \E user \in Requesters :
        /\ Requested("system_info", user, 0, NoArgs,
                     system_info(todos, users, user), None)
        /\ UNCHANGED clock

\* auth.get_user(username)
get_user(us, username) ==
    IF \E i \in DOMAIN us : us[i].username = username
    THEN Some(CHOOSE i \in DOMAIN us : us[i].username = username)
    ELSE None

\* auth.user_repo.create(username, email, password, role): the new user, and
\* the user table with it
user_repo_create(us, username, role) ==
    LET id == Max(DOMAIN us \cup {0}) + 1
    IN  [ret |-> [id |-> id, role |-> role],
         us  |-> [i \in DOMAIN us \cup {id} |->
                     IF i = id THEN [role |-> role, active |-> TRUE, username |-> username]
                     ELSE us[i]]]

\* The parameters of TodoDatabase.create_todo
CreateTodoParams == {"user_id", "title", "description", "priority", "due_date"}

demo_users ==
    << [username |-> "demo_user", role |-> "user"],
       [username |-> "demo_manager", role |-> "manager"] >>

\* The four sample titles, each by its first letter
sample_todos == << <<"L">>, <<"I">>, <<"B">>, <<"D">> >>

\* The keyword arguments create_demo_data passes for the sample todo of index i
SampleKwargs(user_id, i) ==
    [user_id |-> user_id, title |-> sample_todos[i + 1], description |-> <<"d">>,
     completed |-> (i % 3 = 0)]

\* The inner loop of create_demo_data from index i on.  A call with a keyword
\* argument that create_todo does not have raises TypeError before the body
\* of create_todo (and its try) is entered.
RECURSIVE AddSampleTodos(_, _, _, _)
AddSampleTodos(db, now, user_id, i) ==
    IF i >= Len(sample_todos) THEN [raised |-> FALSE, db |-> db]
    ELSE LET kwargs == SampleKwargs(user_id, i)
         IN  IF ~(DOMAIN kwargs \subseteq CreateTodoParams)
             THEN [raised |-> TRUE, db |-> db]
             ELSE LET r == create_todo(db, now, kwargs.user_id, Some(kwargs.title),
                                       Some(kwargs.description), None, None)
                  IN  AddSampleTodos(r.db, now, user_id, i + 1)

\* The outer loop of create_demo_data from the n-th demo user on; an exception
\* ends the function in its except clause, with what was done so far
RECURSIVE AddDemoUsers(_, _, _, _)
AddDemoUsers(db, us, now, n) ==
    IF n > Len(demo_users) THEN [db |-> db, us |-> us]
    ELSE IF get_user(us, demo_users[n].username) # None
    THEN AddDemoUsers(db, us, now, n + 1)
    ELSE LET c == user_repo_create(us, demo_users[n].username, demo_users[n].role)
         IN  IF demo_users[n].role = "user"
             THEN LET t == AddSampleTodos(db, now, c.ret.id, 0)
                  IN  IF t.raised THEN [db |-> t.db, us |-> c.us]
                      ELSE AddDemoUsers(t.db, c.us, now, n + 1)
             ELSE AddDemoUsers(db, c.us, now, n + 1)

create_demo_data(db, us, now) == AddDemoUsers(db, us, now, 1)

\* main(): the application is started (again) on the stored database, and
\* create_demo_data runs before the first request is served
Main ==
    /\ nops < MaxOps
    /\ LET r == create_demo_data(todos, users, clock)
       IN  /\ nops' = nops + 1
           /\ todos' = r.db
           /\ users' = r.us
           /\ last' = [op |-> "main", uid |-> 0, tid |-> 0, args |-> [users |-> users],
                       ret |-> None, before |-> None, role |-> "none",
                       calls |-> {"create_demo_data"}, pre |-> todos,
                       touched |-> { todos[i].user_id : i \in Touched },
                       same |-> todos' = todos, repeat |-> last.op = "main"]
           /\ UNCHANGED <<clock, procs>>

RouteNext ==
    \/ Main
    \/ Dashboard
    \/ CreateTodoRoute
    \/ EditTodoForm
    \/ UpdateTodoRoute
    \/ ToggleTodo
    \/ DeleteTodoRoute
    \/ DebugSecurity
    \/ AdminDashboard
    \/ UserManagement
    \/ ChangeUserRole
    \/ ToggleUserStatus
    \/ DeleteUser
    \/ AllTodosManagement
    \/ SystemInfo

RouteSpec == Init /\ [][RouteNext]_vars

----------------------------------------------------------------------------
(* The store operations step by step.  The handlers toggle_todo and         *)
(* delete_todo are plain functions, which the server runs on the threads of *)
(* its pool; every statement of the store that reads or writes the table is *)
(* one step, and steps of different calls interleave.                       *)

\* The todo all the step-wise calls are about
ConcTodoId == 1

\* The keyword arguments of an edit: a new title and a new priority
EditPatch == [NoPatch EXCEPT !.title = Some(<<"b">>), !.priority = Some(HIGH)]

\* A call that was just started: pc is the statement it is about to run;
\* cur is current_todo of update_todo; hit is the owner the written or
\* deleted row had in the table at the moment of the write (0: none yet or
\* no such row); c0 is the completion value stored when the call was started
Started(op, uid, pc, patch) ==
    [op |-> op, uid |-> uid, tid |-> ConcTodoId, pc |-> pc, patch |-> patch,
     cur |-> None, ret |-> FALSE, hit |-> 0,
     c0 |-> IF ConcTodoId \in DOMAIN todos THEN todos[ConcTodoId].completed ELSE 2]

Finished(p, ret) == [p EXCEPT !.pc = "done", !.ret = ret]

\* The calls that are about to run the statement pc
At(pc) == { n \in DOMAIN procs : procs[n].pc = pc }

StartToggle ==
    /\ nops < MaxOps
    /\ \E u \in UserIds :
          procs' = Append(procs, Started("toggle_todo_completion", u, "t_get", NoPatch))
    /\ nops' = nops + 1
    /\ UNCHANGED <<todos, users, clock, last>>

StartUpdate ==
    /\ nops < MaxOps
    /\ \E u \in UserIds :
          procs' = Append(procs, Started("update_todo_secure", u, "s_check", EditPatch))
    /\ nops' = nops + 1
    /\ UNCHANGED <<todos, users, clock, last>>

StartDelete ==
    /\ nops < MaxOps
    /\ \E u \in UserIds :
          procs' = Append(procs, Started("delete_todo", u, "d_read", NoPatch))
    /\ nops' = nops + 1
    /\ UNCHANGED <<todos, users, clock, last>>

StartAdminDelete ==
    /\ nops < MaxOps
    /\ procs' = Append(procs, Started("admin_delete_todo", 0, "a_read", NoPatch))
    /\ nops' = nops + 1
    /\ UNCHANGED <<todos, users, clock, last>>

\* create_todo is one INSERT: a single step
ConcCreate ==
    /\ nops < MaxOps
    /\ \E u \in UserIds :
          LET r == create_todo(todos, clock, u, Some(<<"c">>), None, None, None)
          IN  /\ todos' = r.db
              /\ procs' = Append(procs, [Finished(Started("create_todo", u, "done", NoPatch),
                                                  TRUE) EXCEPT !.tid = r.ret[1].id])
    /\ nops' = nops + 1
    /\ UNCHANGED <<users, clock, last>>

\* toggle_todo_completion: todo = get_todo_by_id(...); new_status
ToggleGet ==
    \E n \in At("t_get") :
        LET p    == procs[n]
            todo == get_todo_by_id(todos, p.tid, p.uid)
        IN  /\ procs' = [procs EXCEPT ![n] =
                   IF todo = None THEN Finished(p, FALSE)
                   ELSE [p EXCEPT !.pc = "s_check",
                                  !.patch = [NoPatch EXCEPT
                                      !.completed = Some(todo[1].completed = 0)]]]
            /\ UNCHANGED <<todos, users, clock, nops, last>>

\* update_todo_secure: todo = get_todo_by_id(...)
SecureCheck ==
    \E n \in At("s_check") :
        LET p == procs[n]
        IN  /\ procs' = [procs EXCEPT ![n] =
                   IF get_todo_by_id(todos, p.tid, p.uid) = None THEN Finished(p, FALSE)
                   ELSE [p EXCEPT !.pc = "u_read"]]
            /\ UNCHANGED <<todos, users, clock, nops, last>>

\* update_todo: current_todo = self.todos.get(todo_id); a missing row raises
\* NotFoundError, caught by the except clause
UpdateRead ==
    \E n \in At("u_read") :
        LET p == procs[n]
        IN  /\ procs' = [procs EXCEPT ![n] =
                   IF p.tid \notin DOMAIN todos THEN Finished(p, FALSE)
                   ELSE [p EXCEPT !.pc = "u_write", !.cur = Some(todos[p.tid])]]
            /\ UNCHANGED <<todos, users, clock, nops, last>>

\* The Todo instance update_todo builds from current_todo and its arguments
updated_todo(current_todo, patch, now) ==
    update_todo((current_todo.id :> current_todo), now, current_todo.id,
                current_todo.user_id, patch).db[current_todo.id]

\* update_todo: self.todos.update(updated_todo) writes every column of the
\* row with that id.  When the row is gone the table stays as it is, and
\* whether the library raises (return False) or not (return True) is open.
UpdateWrite ==
    \E n \in At("u_write") :
        LET p == procs[n]
        IN  IF p.tid \in DOMAIN todos
            THEN /\ todos' = [todos EXCEPT ![p.tid] = updated_todo(p.cur[1], p.patch, clock)]
                 /\ procs' = [procs EXCEPT ![n] =
                        [Finished(p, TRUE) EXCEPT !.hit = todos[p.tid].user_id]]
                 /\ UNCHANGED <<users, clock, nops, last>>
            ELSE /\ \E ret \in BOOLEAN : procs' = [procs EXCEPT ![n] = Finished(p, ret)]
                 /\ UNCHANGED <<todos, users, clock, nops, last>>

\* delete_todo: todo = self.todos.get(todo_id) and the comparison of its owner
DeleteRead ==
    \E n \in At("d_read") :
        LET p == procs[n]
        IN  /\ procs' = [procs EXCEPT ![n] =
                   IF p.tid \notin DOMAIN todos \/ todos[p.tid].user_id # p.uid
                   THEN Finished(p, FALSE)
                   ELSE [p EXCEPT !.pc = "d_check"]]
            /\ UNCHANGED <<todos, users, clock, nops, last>>

\* delete_todo: verified_todo = self.get_todo_by_id(todo_id, user_id)
DeleteVerify ==
    \E n \in At("d_check") :
        LET p == procs[n]
        IN  /\ procs' = [procs EXCEPT ![n] =
                   IF get_todo_by_id(todos, p.tid, p.uid) = None THEN Finished(p, FALSE)
                   ELSE [p EXCEPT !.pc = "d_delete"]]
            /\ UNCHANGED <<todos, users, clock, nops, last>>

\* admin_delete_todo: todo = self.todos.get(todo_id)
AdminDeleteRead ==
    \E n \in At("a_read") :
        LET p == procs[n]
        IN  /\ procs' = [procs EXCEPT ![n] =
                   IF p.tid \notin DOMAIN todos THEN Finished(p, FALSE)
                   ELSE [p EXCEPT !.pc = "d_delete"]]
            /\ UNCHANGED <<todos, users, clock, nops, last>>

\* delete_todo and admin_delete_todo: self.todos.delete(todo_id) deletes the
\* row with that id.  When the row is gone the table stays as it is, and
\* whether the library raises (return False) or not (return True) is open.
DeleteRow ==
    \E n \in At("d_delete") :
        LET p == procs[n]
        IN  IF p.tid \in DOMAIN todos
            THEN /\ todos' = Without(todos, p.tid)
                 /\ procs' = [procs EXCEPT ![n] =
                        [Finished(p, TRUE) EXCEPT !.hit = todos[p.tid].user_id]]
                 /\ UNCHANGED <<users, clock, nops, last>>
            ELSE /\ \E ret \in BOOLEAN : procs' = [procs EXCEPT ![n] = Finished(p, ret)]
                 /\ UNCHANGED <<todos, users, clock, nops, last>>

\* One todo of user 1 is stored (a create_todo call has been made), and no
\* call is running
ConcInit ==
    /\ todos = create_todo(<< >>, 0, 1, Some(<<"a">>), None, None, None).db
    /\ users = [i \in UserIds |-> [role     |-> IF i = 1 THEN "admin" ELSE "user",
                                    active   |-> TRUE,
                                    username |-> IF i = 1 THEN "admin" ELSE "user2"]]
    /\ clock = 0
    /\ nops = 0
    /\ procs = << >>
    /\ last = [op |-> "none", uid |-> 0, tid |-> 0, args |-> NoArgs,
               ret |-> None, before |-> None, role |-> "none", calls |-> {},
               pre |-> << >>,
               touched |-> {}, same |-> TRUE,
               repeat |-> FALSE]

ConcNext ==
    \/ StartToggle
    \/ StartUpdate
    \/ StartDelete
    \/ StartAdminDelete
    \/ ConcCreate
    \/ ToggleGet
    \/ SecureCheck
    \/ UpdateRead
    \/ UpdateWrite
    \/ DeleteRead
    \/ DeleteVerify
    \/ AdminDeleteRead
    \/ DeleteRow

ConcSpec == ConcInit /\ [][ConcNext]_vars

----------------------------------------------------------------------------
(* The admin requests step by step.  A request is admitted by require_admin *)
(* on the user the beforeware loaded for it (req.scope['user']); its body   *)
(* runs later: change_user_role awaits the form first, toggle_user_status   *)
(* and delete_user are plain functions run on a worker thread.  The bodies  *)
(* of requests admitted at the same time interleave.                        *)

\* The roles the concurrent role changes ask for
ConcRoleInputs == {"user", "admin", "root"}

\* A request at the statement pc: uid and role are those of current_user, as
\* loaded at admission; own tells whether the body left its own requester in
\* the table, active and admin
Admitted(op, user, target, arg, pc) ==
    [op |-> op, uid |-> user.id, role |-> user.role, tid |-> target, arg |-> arg,
     pc |-> pc, ret |-> "", own |-> TRUE]

\* The request as require_admin leaves it: refused with 403, or at its body
Admission(op, user, target, arg, pc) ==
    IF require_admin(user) THEN Admitted(op, user, target, arg, pc)
    ELSE [Admitted(op, user, target, arg, "done") EXCEPT !.ret = "403"]

\* Whether user id, when in the table us1, is still in us2, still active if
\* it was, and still admin if it was
Kept(us1, us2, id) ==
    id \in DOMAIN us1 =>
        /\ id \in DOMAIN us2
        /\ us1[id].active => us2[id].active
        /\ us1[id].role = "admin" => us2[id].role = "admin"

\* The request when the handler h has answered, changing the user table to h.us
Answered(p, h) ==
    [p EXCEPT !.pc = "done", !.ret = h.resp.to, !.own = Kept(users, h.us, p.uid)]

AdmitChangeUserRole ==
    /\ nops < MaxOps
    /\ \E user \in Requesters, target \in DOMAIN users, role \in ConcRoleInputs :
          procs' = Append(procs, Admission("change_user_role", user, target, role, "role_body"))
    /\ nops' = nops + 1
    /\ UNCHANGED <<todos, users, clock, last>>

AdmitToggleUserStatus ==
    /\ nops < MaxOps
    /\ \E user \in Requesters, target \in DOMAIN users :
          procs' = Append(procs, Admission("toggle_user_status", user, target, "", "status_body"))
    /\ nops' = nops + 1
    /\ UNCHANGED <<todos, users, clock, last>>

AdmitDeleteUser ==
    /\ nops < MaxOps
    /\ \E user \in Requesters, target \in DOMAIN users :
          procs' = Append(procs, Admission("delete_user", user, target, "", "delete_cleanup"))
    /\ nops' = nops + 1
    /\ UNCHANGED <<todos, users, clock, last>>

\* A logged-in user creates a todo (one INSERT)
UserCreatesTodo ==
    /\ nops < MaxOps
    /\ \E user \in Requesters :
          LET r == create_todo(todos, clock, user.id, Some(<<"c">>), None, None, None)
          IN  /\ todos' = r.db
              /\ procs' = Append(procs, [Admitted("create_todo", user, r.ret[1].id, "", "done")
                                            EXCEPT !.ret = "created"])
    /\ nops' = nops + 1
    /\ UNCHANGED <<users, clock, last>>

\* change_user_role after await req.form(): the rest of the handler
ChangeUserRoleBody ==
    \E n \in At("role_body") :
        LET p == procs[n]
            h == change_user_role(todos, users, [id |-> p.uid, role |-> p.role], p.tid, p.arg)
        IN  /\ users' = h.us
            /\ procs' = [procs EXCEPT ![n] = Answered(p, h)]
            /\ UNCHANGED <<todos, clock, nops, last>>

\* toggle_user_status on its worker thread: the body of the handler
ToggleUserStatusBody ==
    \E n \in At("status_body") :
        LET p == procs[n]
            h == toggle_user_status(todos, users, [id |-> p.uid, role |-> p.role], p.tid)
        IN  /\ users' = h.us
            /\ procs' = [procs EXCEPT ![n] = Answered(p, h)]
            /\ UNCHANGED <<todos, clock, nops, last>>

\* delete_user: the check against self-deletion, get_by_id, and
\* todo_db.delete_user_todos(user_id), whose result is not looked at
DeleteUserCleanup ==
    \E n \in At("delete_cleanup") :
        LET p == procs[n]
        IN  IF p.tid = p.uid
            THEN /\ procs' = [procs EXCEPT ![n] =
                        [p EXCEPT !.pc = "done", !.ret = "/admin/users?error=cannot_delete_self"]]
                 /\ UNCHANGED <<todos, users, clock, nops, last>>
            ELSE IF user_repo_get_by_id(users, p.tid) = None
            THEN /\ procs' = [procs EXCEPT ![n] =
                        [p EXCEPT !.pc = "done", !.ret = "/admin/users?error=user_not_found"]]
                 /\ UNCHANGED <<todos, users, clock, nops, last>>
            ELSE /\ todos' = delete_user_todos(todos, p.tid).db
                 /\ procs' = [procs EXCEPT ![n] = [p EXCEPT !.pc = "delete_row"]]
                 /\ UNCHANGED <<users, clock, nops, last>>

\* delete_user: auth.user_repo.db.t.user.delete(user_id) and the answer.  The
\* todo table declares user_id a foreign key of the user table; the code
\* sets no PRAGMA foreign_keys, and whether the library's connection
\* enforces the key is open: when it does, deleting a user who has todos
\* raises, and the except clause answers delete_failed.  Deleting a row that
\* is gone changes nothing, and whether it raises is open as well.
DeleteUserRow ==
    \E n \in At("delete_row") :
        LET p == procs[n]
        IN  \E raises \in BOOLEAN :
              /\ raises => \/ p.tid \notin DOMAIN users
                           \/ \E i \in DOMAIN todos : todos[i].user_id = p.tid
              /\ users' = IF raises \/ p.tid \notin DOMAIN users THEN users
                          ELSE user_delete(users, p.tid)
              /\ procs' = [procs EXCEPT ![n] =
                     [p EXCEPT !.pc = "done",
                               !.ret = IF raises THEN "/admin/users?error=delete_failed"
                                       ELSE "/admin/users?success=user_deleted",
                               !.own = Kept(users, users', p.uid)]]
              /\ UNCHANGED <<todos, clock, nops, last>>

AdminConcNext ==
    \/ AdmitChangeUserRole
    \/ AdmitToggleUserStatus
    \/ AdmitDeleteUser
    \/ UserCreatesTodo
    \/ ChangeUserRoleBody
    \/ ToggleUserStatusBody
    \/ DeleteUserCleanup
    \/ DeleteUserRow

AdminConcSpec == Init /\ [][AdminConcNext]_vars

----------------------------------------------------------------------------
(* Claims about the store operations, under Spec. *)

UserScopedOps ==
    { "get_todos_by_user", "get_todo_by_id", "update_todo", "update_todo_secure",
      "toggle_todo_completion", "delete_todo", "get_user_stats" }

\* The rows a call returned
ReturnedRows(call) ==
    IF call.op = "get_todo_by_id" THEN { call.ret[i] : i \in 1..Len(call.ret) }
    ELSE IF call.op = "get_todos_by_user" THEN { call.ret[i] : i \in 1..Len(call.ret) }
    ELSE {}

\* C1: no call of a user-scoped store operation made for user U returns,
\* modifies or removes a todo whose user_id is not U.
C1_OwnershipInvariant ==
    last.op \in UserScopedOps =>
        /\ \A owner \in last.touched : owner = last.uid
        /\ \A r \in ReturnedRows(last) : r.user_id = last.uid

\* C2: get_todo_by_id(todoId, U) returns the todo exactly when a todo with
\* that id is stored and its user_id is U, and returns None otherwise.
C2_GetByIdIffOwned ==
    last.op = "get_todo_by_id" =>
        /\ last.ret # None <=> (last.tid \in DOMAIN todos /\ todos[last.tid].user_id = last.uid)
        /\ last.ret # None => last.ret = Some(todos[last.tid])

\* C2 witness: user U asked for a stored todo of another user and got None
C2_Witness ==
    /\ last.op = "get_todo_by_id"
    /\ last.tid \in DOMAIN todos
    /\ todos[last.tid].user_id # last.uid
    /\ last.ret = None

\* C4: update_todo_secure, toggle_todo_completion or delete_todo called with
\* an id that is not stored, or is stored for another user, returns False and
\* leaves the whole table as it was.
C4_FailedMutationChangesNothing ==
    ( /\ last.op \in {"update_todo_secure", "toggle_todo_completion", "delete_todo"}
      /\ \/ last.before = None
         \/ last.before[1].user_id # last.uid )
    => (last.ret = FALSE /\ last.same)

\* C4 witness: an update by a user who does not own the stored todo failed
C4_Witness ==
    /\ last.op = "update_todo_secure"
    /\ last.args.title # None
    /\ last.before # None
    /\ last.before[1].user_id # last.uid
    /\ last.ret = FALSE
    /\ last.tid \in DOMAIN todos

\* C6: create with a title that is empty after trimming returns a failure and
\* adds no record.
C6_CreateRejectsBlankTitle ==
    ( /\ last.op = "create_todo"
      /\ last.args.title # None
      /\ \A k \in 1..Len(last.args.title[1]) : last.args.title[1][k] = SP )
    => (last.ret = None /\ last.same)

\* t is s without its leading and trailing spaces
IsTrimOf(t, s) ==
    /\ t # <<>> => (t[1] # SP /\ t[Len(t)] # SP)
    /\ \E i \in 0..Len(s) :
          /\ i + Len(t) <= Len(s)
          /\ \A k \in 1..Len(s) :
                IF k > i /\ k <= i + Len(t) THEN s[k] = t[k - i] ELSE s[k] = SP

\* C7: a successful create adds exactly one todo, under an id no stored todo
\* has, owned by the caller, titled with the trimmed input, not completed,
\* created_at = updated_at, priority medium and description empty when these
\* are omitted; every todo stored before is unchanged.
C7_CreateAddsOneFreshTodo ==
    [][ (last'.op = "create_todo" /\ last'.ret # None) =>
            LET t == last'.ret[1]
                a == last'.args
            IN  /\ t.id \notin DOMAIN todos
                /\ DOMAIN todos' = DOMAIN todos \cup {t.id}
                /\ todos'[t.id] = t
                /\ \A i \in DOMAIN todos : todos'[i] = todos[i]
                /\ t.user_id = last'.uid
                /\ IsTrimOf(t.title, a.title[1])
                /\ t.completed = 0
                /\ t.created_at = t.updated_at
                /\ a.priority = None => t.priority = MEDIUM
                /\ a.description = None => t.description = <<>> ]_vars

\* C7 witness: a create with the optional arguments omitted succeeded while
\* another todo was stored
C7_Witness ==
    /\ last.op = "create_todo"
    /\ last.ret # None
    /\ last.args.priority = None
    /\ last.args.title = Some(<<SP, "b", SP>>)
    /\ Cardinality(DOMAIN todos) >= 2

PatchFields == {"title", "description", "priority"}

\* C8: a successful update changes exactly the supplied fields of the target:
\* an omitted field keeps its value, id, user_id and created_at stay,
\* updated_at is refreshed, and every other todo is unchanged.
C8_UpdateChangesOnlySupplied ==
    [][ (last'.op \in {"update_todo", "update_todo_secure"} /\ last'.ret = TRUE) =>
            LET t == last'.tid
                p == last'.args
            IN  /\ t \in DOMAIN todos
                /\ DOMAIN todos' = DOMAIN todos
                /\ \A i \in DOMAIN todos \ {t} : todos'[i] = todos[i]
                /\ todos'[t].id = todos[t].id
                /\ todos'[t].user_id = todos[t].user_id
                /\ todos'[t].created_at = todos[t].created_at
                /\ todos'[t].updated_at = clock'
                /\ \A f \in PatchFields :
                      todos'[t][f] = IF p[f] = None THEN todos[t][f] ELSE p[f][1]
                /\ todos'[t].completed =
                      IF p.completed = None THEN todos[t].completed
                      ELSE IF p.completed[1] THEN 1 ELSE 0
                /\ todos'[t].due_date =
                      IF p.due_date = None THEN todos[t].due_date ELSE p.due_date ]_vars

\* C8 witness: an update that supplied only completed succeeded on a todo
\* that has a description and a due date
C8_Witness ==
    /\ last.op = "update_todo_secure"
    /\ last.ret = TRUE
    /\ last.args.title = None
    /\ last.args.completed # None
    /\ todos[last.tid].description # <<>>
    /\ todos[last.tid].due_date # None
    /\ todos[last.tid].updated_at > todos[last.tid].created_at

\* C9: every stored todo has updated_at >= created_at, and no step changes the
\* created_at or the user_id of a todo that stays stored.
C9_TimestampsAndOwnerStable ==
    /\ [](\A i \in DOMAIN todos : todos[i].updated_at >= todos[i].created_at)
    /\ [][ \A i \in DOMAIN todos \cap DOMAIN todos' :
              /\ todos'[i].created_at = todos[i].created_at
              /\ todos'[i].user_id = todos[i].user_id ]_vars

\* C9 witness: a todo that was updated and toggled after the clock moved on
C9_Witness ==
    /\ last.op = "toggle_todo_completion"
    /\ last.ret = TRUE
    /\ last.before[1].updated_at > last.before[1].created_at
    /\ todos[last.tid].updated_at > last.before[1].updated_at

\* A row with the two fields a toggle may change blanked out
Frame(row) == [row EXCEPT !.completed = 0, !.updated_at = 0]

\* C10: a successful toggle flips completed and leaves every other field but
\* updated_at alone; the second of two successive successful toggles of a todo
\* by its owner puts completed back to the value it had before the first, with
\* every field except completed and updated_at unchanged.
C10_ToggleIsInvolution ==
    [][ (last'.op = "toggle_todo_completion" /\ last'.ret = TRUE) =>
            LET t == last'.tid
            IN  /\ t \in DOMAIN todos /\ t \in DOMAIN todos'
                /\ todos'[t].completed = 1 - todos[t].completed
                /\ Frame(todos'[t]) = Frame(todos[t])
                /\ last'.repeat =>
                      /\ todos'[t].completed = last.before[1].completed
                      /\ Frame(todos'[t]) = Frame(last.before[1]) ]_vars

\* C10 witness: the second of two successive successful toggles has been made
C10_Witness ==
    /\ last.op = "toggle_todo_completion"
    /\ last.ret = TRUE
    /\ last.repeat
    /\ todos[last.tid].completed = 0

\* The rows of db that user U owns
Own(db, U) == [i \in { j \in DOMAIN db : db[j].user_id = U } |-> db[i]]

\* C3: what a user-scoped operation (and the edit, toggle and delete routes)
\* gives user U does not depend on the todos U does not own: every call made
\* returns, and leaves of U's todos, what the same call returns and leaves on
\* the table that holds U's todos only.
C3_NonInterference ==
    [][ LET U    == last'.uid
            t    == last'.tid
            mine == Own(todos, U)
            user == [id |-> U, role |-> users[U].role]
        IN  /\ last'.op = "get_todo_by_id" =>
                 /\ last'.ret = get_todo_by_id(mine, t, U)
                 /\ edit_todo_form(todos, users, user, t).resp
                      = edit_todo_form(mine, users, user, t).resp
            /\ last'.op = "get_todos_by_user" =>
                 last'.ret = get_todos_by_user(mine, U, last'.args.completed)
            /\ last'.op = "get_user_stats" =>
                 last'.ret = get_user_stats(mine, U)
            /\ last'.op = "update_todo_secure" =>
                 /\ last'.ret = update_todo_secure(mine, clock', t, U, last'.args).ret
                 /\ Own(todos', U) = update_todo_secure(mine, clock', t, U, last'.args).db
                 /\ \A form \in Forms :
                       update_todo_route(todos, users, clock', user, t, form).resp
                         = update_todo_route(mine, users, clock', user, t, form).resp
            /\ last'.op = "toggle_todo_completion" =>
                 /\ last'.ret = toggle_todo_completion(mine, clock', t, U).ret
                 /\ Own(todos', U) = toggle_todo_completion(mine, clock', t, U).db
                 /\ toggle_todo(todos, users, clock', user, t).resp
                      = toggle_todo(mine, users, clock', user, t).resp
            /\ last'.op = "delete_todo" =>
                 /\ last'.ret = delete_todo(mine, t, U).ret
                 /\ Own(todos', U) = delete_todo(mine, t, U).db
                 /\ delete_todo_route(todos, users, user, t).resp
                      = delete_todo_route(mine, users, user, t).resp ]_vars

\* C3 witness: a delete by a user of a stored todo of another user failed,
\* as it does for an id that is not stored
C3_Witness ==
    /\ last.op = "delete_todo"
    /\ last.before # None
    /\ last.before[1].user_id # last.uid
    /\ last.ret = FALSE

----------------------------------------------------------------------------
(* Claims about the routes, under RouteSpec. *)

\* The operations that bypass ownership, and the user mutations of the admin routes
AdminOps ==
    { "get_all_todos_admin", "get_system_stats", "delete_user_todos", "admin_delete_todo",
      "debug_all_todos", "security_audit_todos", "user_repo.list_all",
      "user_repo.update", "user.delete" }

\* C5: a request whose user is not an admin runs no ownership-bypassing
\* operation and no user mutation, changes no user and no todo of another
\* user, and is answered with no data of another user.
C5_AdminGating ==
    [][ (last'.op # "main" /\ last'.role # "admin") =>
            /\ last'.calls \cap AdminOps = {}
            /\ users' = users
            /\ \A i \in Touched : todos[i].user_id = last'.uid
            /\ \A r \in last'.ret.rows : r.user_id = last'.uid
            /\ last'.ret.people \subseteq {last'.uid} ]_vars

\* C5 witness: a user who is not an admin asked for the security debug page
\* while a todo of another user was stored, and was turned away
C5_Witness ==
    /\ last.op = "debug_security"
    /\ last.role = "user"
    /\ last.ret.status = 403
    /\ \E i \in DOMAIN todos : todos[i].user_id # last.uid

----------------------------------------------------------------------------
(* Claims about listing and statistics, under Spec. *)

\* The elements of a list
Elems(list) == { list[k] : k \in 1..Len(list) }

\* The ids of the todos of db that owner has and that match the filter
Matching(db, owner, filter) ==
    { i \in DOMAIN db : /\ db[i].user_id = owner
                        /\ filter # None => ((db[i].completed # 0) = filter[1]) }

\* C11: get_todos_by_user(ownerId, completedFilter) returns exactly the stored
\* todos of ownerId that match the filter when one is given: none of another
\* owner, none left out, none twice.
C11_ListIsExactlyOwnersMatching ==
    last.op = "get_todos_by_user" =>
        LET want == Matching(last.pre, last.uid, last.args.completed)
        IN  /\ Elems(last.ret) = { last.pre[i] : i \in want }
            /\ Len(last.ret) = Cardinality(want)

\* C11 witness: a filtered listing returned a todo while the table also held
\* a todo of another owner
C11_Witness ==
    /\ last.op = "get_todos_by_user"
    /\ last.args.completed # None
    /\ last.ret # <<>>
    /\ \E i \in DOMAIN todos : todos[i].user_id # last.uid

\* C12: for every owner, in every state, the completed=True list and the
\* completed=False list share no todo, neither holds a todo twice, and
\* together they hold exactly the todos of the unfiltered list.
C12_FilteredListsPartition ==
    \A u \in UserIds :
        LET done    == get_todos_by_user(todos, u, Some(TRUE))
            pending == get_todos_by_user(todos, u, Some(FALSE))
            all     == get_todos_by_user(todos, u, None)
        IN  /\ Elems(done) \cap Elems(pending) = {}
            /\ Elems(done) \cup Elems(pending) = Elems(all)
            /\ Len(done) = Cardinality(Elems(done))
            /\ Len(pending) = Cardinality(Elems(pending))
            /\ Len(done) + Len(pending) = Len(all)

\* C12 witness: an owner has a completed todo and a pending one
C12_Witness ==
    \E u \in UserIds :
        /\ get_todos_by_user(todos, u, Some(TRUE)) # <<>>
        /\ get_todos_by_user(todos, u, Some(FALSE)) # <<>>

\* C13: the list get_todos_by_user returns is ordered by created_at
\* descending, the most recently created todo first.
C13_ListNewestFirst ==
    last.op = "get_todos_by_user" =>
        \A j, k \in 1..Len(last.ret) :
            j < k => last.ret[j].created_at >= last.ret[k].created_at

\* The ids of the todos of db that owner has
OwnedIds(db, owner) == { i \in DOMAIN db : db[i].user_id = owner }

\* C14: get_user_stats(ownerId) returns total = the number of todos ownerId
\* has, completed = the number of those that are completed, pending = total -
\* completed and completion_rate = completed / total, or 0 when the owner has
\* no todo; the todos of other owners do not count.
C14_UserStats ==
    last.op = "get_user_stats" =>
        LET own  == OwnedIds(last.pre, last.uid)
            done == { i \in own : last.pre[i].completed # 0 }
            rate == last.ret.completion_rate
        IN  /\ last.ret.total = Cardinality(own)
            /\ last.ret.completed = Cardinality(done)
            /\ last.ret.pending = Cardinality(own) - Cardinality(done)
            /\ rate[2] # 0
            /\ IF own = {} THEN rate[1] = 0
               ELSE rate[1] * Cardinality(own) = Cardinality(done) * rate[2]

\* C14 witness: statistics were computed for an owner who has a todo while
\* another owner has one too
C14_Witness ==
    /\ last.op = "get_user_stats"
    /\ last.ret.total >= 1
    /\ \E i \in DOMAIN todos : todos[i].user_id # last.uid

\* C15: a successful delete_todo(todoId, U) removes the todo of that id, which
\* U owned, and nothing else: get_todo_by_id(todoId, U) then finds nothing and
\* every other todo is stored as it was.
C15_DeleteRemovesExactlyOne ==
    (last.op = "delete_todo" /\ last.ret = TRUE) =>
        /\ last.tid \in DOMAIN last.pre
        /\ last.pre[last.tid].user_id = last.uid
        /\ get_todo_by_id(todos, last.tid, last.uid) = None
        /\ DOMAIN todos = DOMAIN last.pre \ {last.tid}
        /\ \A i \in DOMAIN todos : todos[i] = last.pre[i]

\* C15 witness: a todo was deleted by its owner while the owner had another
C15_Witness ==
    /\ last.op = "delete_todo"
    /\ last.ret = TRUE
    /\ \E i \in DOMAIN todos : todos[i].user_id = last.uid

\* C16: admin_delete_todo(todoId) returns True and removes the todo, and only
\* it, whenever a todo of that id is stored, whoever owns it; it returns False
\* only when none is stored, and then the table is as it was.
C16_AdminDelete ==
    last.op = "admin_delete_todo" =>
        IF last.tid \in DOMAIN last.pre
        THEN /\ last.ret = TRUE
             /\ todos = Without(last.pre, last.tid)
        ELSE /\ last.ret = FALSE
             /\ todos = last.pre

\* C16 witness: admin_delete_todo removed a todo of user 2 and left another
C16_Witness ==
    /\ last.op = "admin_delete_todo"
    /\ last.ret = TRUE
    /\ last.before[1].user_id = 2
    /\ todos # << >>

\* C17: delete_user_todos(ownerId) returns the number of todos it deleted,
\* which are the todos of ownerId and no other: 0 for an owner who has none.
\* (A returned bool is read as Python reads it, True as 1 and False as 0.)
C17_DeleteUserTodosReturnsCount ==
    last.op = "delete_user_todos" =>
        LET own == OwnedIds(last.pre, last.uid)
        IN  /\ ToInt(last.ret) = Cardinality(own)
            /\ todos = [i \in DOMAIN last.pre \ own |-> last.pre[i]]

\* C18: get_all_todos_admin(completedFilter, limit) returns at most limit
\* rows, ordered by created_at descending, of the todos of all owners that
\* match the filter when one is given, each row with its owner's username and
\* email; no matching todo is left out while there is room, and when more
\* than limit match, no todo left out was created later than a returned one.
C18_AdminListing ==
    last.op = "get_all_todos_admin" =>
        LET pre      == last.pre
            filter   == last.args.completed
            matching == { i \in DOMAIN pre :
                            filter # None => ((pre[i].completed # 0) = filter[1]) }
            rows     == last.ret
            got      == { rows[k].id : k \in 1..Len(rows) }
        IN  /\ Len(rows) <= last.args.limit
            /\ Cardinality(got) = Len(rows)
            /\ got \subseteq matching
            /\ Len(rows) < last.args.limit => got = matching
            /\ \A k \in 1..Len(rows) :
                  LET t == pre[rows[k].id]
                  IN  /\ rows[k].title = t.title
                      /\ rows[k].completed = t.completed
                      /\ rows[k].created_at = t.created_at
                      /\ rows[k].user_id = t.user_id
                      /\ rows[k].username = t.user_id
                      /\ rows[k].email = t.user_id
            /\ \A j, k \in 1..Len(rows) :
                  j < k => rows[j].created_at >= rows[k].created_at
            /\ \A i \in matching \ got : \A k \in 1..Len(rows) :
                  pre[i].created_at <= rows[k].created_at

\* C18 witness: two todos of different owners, created at different times,
\* were listed with limit 1
C18_Witness ==
    /\ last.op = "get_all_todos_admin"
    /\ last.args.limit = 1
    /\ Len(last.ret) = 1
    /\ \E i, j \in DOMAIN todos : /\ todos[i].user_id # todos[j].user_id
                                  /\ todos[i].created_at # todos[j].created_at

\* The sum of the values of a function
RECURSIVE SumOf(_)
SumOf(f) ==
    IF DOMAIN f = {} THEN 0
    ELSE LET x == CHOOSE y \in DOMAIN f : TRUE
         IN  f[x] + SumOf([y \in DOMAIN f \ {x} |-> f[y]])

\* C19: get_system_stats reports total = the number of stored todos,
\* completed = the number of completed ones, pending = total - completed and,
\* for each priority, the number of todos of that priority (a priority not
\* listed counts as 0), so that the counts by priority sum to the total;
\* recent_activity has at most 10 entries, the most recently created first.
C19_SystemStats ==
    last.op = "get_system_stats" =>
        LET pre      == last.pre
            stats    == last.ret
            count(p) == Cardinality({ i \in DOMAIN pre : pre[i].priority = p })
            shown(p) == IF p \in DOMAIN stats.priority_stats
                        THEN stats.priority_stats[p] ELSE 0
            recent   == stats.recent_activity
        IN  /\ stats.todo_stats.total = Cardinality(DOMAIN pre)
            /\ stats.todo_stats.completed =
                  Cardinality({ i \in DOMAIN pre : pre[i].completed # 0 })
            /\ stats.todo_stats.pending =
                  stats.todo_stats.total - stats.todo_stats.completed
            /\ \A p \in {LOW, MEDIUM, HIGH} \cup { pre[i].priority : i \in DOMAIN pre } :
                  shown(p) = count(p)
            /\ SumOf(stats.priority_stats) = stats.todo_stats.total
            /\ Len(recent) <= 10
            /\ \A j, k \in 1..Len(recent) :
                  j < k => recent[j].timestamp >= recent[k].timestamp

\* C20: every stored todo has a title that is not empty after trimming.
C20_NoBlankTitleStored ==
    \A i \in DOMAIN todos : strip(todos[i].title) # <<>>

----------------------------------------------------------------------------
(* Claims about the stored fields, under Spec. *)

\* C21: every stored todo has a priority that is one of low, medium, high.
C21_PriorityInEnum ==
    \A i \in DOMAIN todos : todos[i].priority \in {LOW, MEDIUM, HIGH}

\* C22: a stored todo is pending or completed, it starts pending, and no
\* operation other than toggle_todo_completion changes the completed flag of
\* a todo that stays stored.
C22_CompletedChangesOnlyByToggle ==
    /\ \A i \in DOMAIN todos : todos[i].completed \in {0, 1}
    /\ (last.op = "create_todo" /\ last.ret # None) => last.ret[1].completed = 0
    /\ last.op # "toggle_todo_completion" =>
          \A i \in DOMAIN last.pre \cap DOMAIN todos :
              todos[i].completed = last.pre[i].completed

----------------------------------------------------------------------------
(* Claims about the pages and forms, under RouteSpec. *)

\* C28: when the owner submits the edit form with an empty due_date (and a
\* title) for a todo that has a due date, the update succeeds and the todo is
\* stored with no due date afterwards.
C28_EditClearsDueDate ==
    ( /\ last.op = "update_todo_route"
      /\ last.before # None
      /\ last.before[1].user_id = last.uid
      /\ last.before[1].due_date # None
      /\ last.args.due_date = <<>>
      /\ strip(last.args.title) # <<>> )
    => /\ last.ret.to = "/dashboard?success=updated"
       /\ todos[last.tid].due_date = None

\* C29: the admin dashboard and the system-info page show as 'Total Todos'
\* the total of get_system_stats and as 'Total Users' its user_count, and the
\* system-info page shows as completion rate completed / total, 0 when there
\* is no todo.
C29_PagesShowTrueCounts ==
    (last.op \in {"admin_dashboard", "system_info"} /\ last.ret.status = 200) =>
        LET stats == get_system_stats(last.pre, users)
            total == stats.todo_stats.total
            page  == last.ret.body[1]
        IN  /\ page.total_todos = total
            /\ page.total_users = stats.user_count
            /\ last.op = "system_info" =>
                  /\ page.completion_rate[2] # 0
                  /\ IF total = 0 THEN page.completion_rate[1] = 0
                     ELSE page.completion_rate[1] * total =
                          stats.todo_stats.completed * page.completion_rate[2]

\* The ids of the users of us that have the name
Named(us, name) == { i \in DOMAIN us : us[i].username = name }

\* C30: after create_demo_data has run on a database with neither demo
\* account, demo_user (role user) and demo_manager (role manager) exist and
\* demo_user owns the four sample todos; a run that directly follows a run
\* creates no user and no todo.
C30_DemoSeeding ==
    last.op = "main" =>
        /\ (Named(last.args.users, "demo_user") = {} /\
            Named(last.args.users, "demo_manager") = {}) =>
              /\ \E i \in Named(users, "demo_user") :
                    /\ users[i].role = "user"
                    /\ { todos[t].title : t \in OwnedIds(todos, i) \ DOMAIN last.pre }
                          = Elems(sample_todos)
                    /\ Cardinality(OwnedIds(todos, i) \ DOMAIN last.pre)
                          = Len(sample_todos)
              /\ \E i \in Named(users, "demo_manager") : users[i].role = "manager"
        /\ last.repeat => (users = last.args.users /\ todos = last.pre)

\* The step-wise calls made on behalf of a user that have written or deleted
\* a row
UserWrites ==
    { n \in DOMAIN procs :
        /\ procs[n].op \in {"toggle_todo_completion", "update_todo_secure", "delete_todo"}
        /\ procs[n].hit # 0 }

\* C23: the row that update_todo_secure, toggle_todo_completion or
\* delete_todo writes or deletes for a user is, at the moment of the write,
\* a row of that user, whatever other calls ran between its steps.
C23_OwnedAtTheWrite ==
    \A n \in UserWrites : procs[n].hit = procs[n].uid

\* C24: when two toggles of the same todo by its owner are the only calls
\* made and both have returned True, the todo is completed exactly when it
\* was before the two calls.
C24_NoLostToggle ==
    ( /\ Len(procs) = 2
      /\ \A n \in {1, 2} : /\ procs[n].op = "toggle_todo_completion"
                           /\ procs[n].pc = "done"
                           /\ procs[n].ret = TRUE
      /\ procs[1].uid = procs[2].uid )
    => todos[ConcTodoId].completed = procs[1].c0

\* C25: when an edit and a toggle of the same todo by its owner are the only
\* calls made and both have returned True, the todo has the title and the
\* priority of the edit and the completion value of the toggle: neither
\* call writes back the value it read of a field it was not given.
C25_LastWriteWinsPerField ==
    \A e, t \in DOMAIN procs :
        ( /\ Len(procs) = 2
          /\ procs[e].op = "update_todo_secure" /\ procs[t].op = "toggle_todo_completion"
          /\ procs[e].pc = "done" /\ procs[t].pc = "done"
          /\ procs[e].ret = TRUE /\ procs[t].ret = TRUE )
        => /\ todos[ConcTodoId].title = EditPatch.title[1]
           /\ todos[ConcTodoId].priority = EditPatch.priority[1]
           /\ todos[ConcTodoId].completed = 1 - procs[1].c0

\* C26: every stored todo belongs to an existing user, and once delete_user
\* has answered user_deleted for a user no todo of that user is stored.
C26_TodosHaveOwners ==
    /\ \A i \in DOMAIN todos : todos[i].user_id \in DOMAIN users
    /\ \A n \in DOMAIN procs :
          (procs[n].op = "delete_user" /\
           procs[n].ret = "/admin/users?success=user_deleted") =>
              \A i \in DOMAIN todos : todos[i].user_id # procs[n].tid

\* C27: some user has role admin, whatever admin requests were admitted and
\* however their bodies interleave; no request deletes, deactivates or
\* demotes its own requester; every stored role is one of user, manager, admin.
C27_AnAdminRemains ==
    /\ \E i \in DOMAIN users : users[i].role = "admin"
    /\ \A n \in DOMAIN procs : procs[n].own
    /\ \A i \in DOMAIN users : users[i].role \in {"user", "manager", "admin"}

====
